---------------------------- MODULE Spec2Model ----------------------------
(***************************************************************************)
(* Model of selfdrive/car/tesla/PCC_module.py: the pedal cruise control    *)
(* (PCC) controller.  PCCController.update_stat is the engagement state    *)
(* machine, PCCController.update_pdl the pedal output encoder, and         *)
(* calc_follow_speed_ms / _decel_limit the follow-speed planner and the    *)
(* deceleration envelope.                                                  *)
(*                                                                         *)
(* Python floats are modelled in fixed point: a real quantity x is the     *)
(* integer x * Milli (speeds in mm/s and milli-kph, pedal travel in        *)
(* milli-percent, torque in milli-Nm, seconds in ms).  Products and        *)
(* quotients are rounded down to the next milli-unit.  Wall-clock          *)
(* timestamps and frame numbers are plain integers, as in the code.        *)
(* An optional value (None or a value) is a sequence of length 0 or 1.     *)
(***************************************************************************)
EXTENDS Integers, Sequences, FiniteSets, TLC

VARIABLES
    self,      \* the PCCController instance: its fields
    btn,       \* CS.cstm_btns status of the "pedal" button (a PCCState code)
    frame,     \* the frame number passed to the most recent call
    now,       \* the wall clock in ms, _current_time_millis()
    call,      \* the call that has just returned: its arguments, the state
               \* before it and its results; op = "idle" between calls
    last_pdl,  \* the most recent update_pdl call: the triple it returned
               \* (if there was a call), whether it ran the encoder, the
               \* speed-limit arguments it was given, and the pedal value
               \* returned by the most recent call that ran the encoder
    sent_idx,  \* the rolling index of the message emitted last, if any
    pc         \* the entry point the control loop calls next in this cycle

vars == <<self, btn, frame, now, call, last_pdl, sent_idx, pc>>

---------------------------------------------------------------------------
(* Fixed-point arithmetic *)

Milli == 10 * 100

Mul(a, b) == (a * b) \div Milli
Div(a, b) == (a * Milli) \div b

Min(a, b) == IF a <= b THEN a ELSE b
Max(a, b) == IF a >= b THEN a ELSE b
Abs(a) == IF a >= 0 THEN a ELSE -a

\* Python int(): truncation toward zero, result in whole units
IntPart(x) == IF x >= 0 THEN x \div Milli ELSE -((-x) \div Milli)

None == <<>>
Some(x) == <<x>>
IsNone(o) == o = <<>>
The(o) == o[1]

---------------------------------------------------------------------------
(* Module constants *)

MAX_RADAR_DISTANCE == 120000
MAX_PEDAL_VALUE == 100000
PEDAL_HYST_GAP == 1000
DT_MS == 50
PEDAL_MAX_UP == (MAX_PEDAL_VALUE * DT_MS) \div 2000
PEDAL_MAX_DOWN == (MAX_PEDAL_VALUE * DT_MS) \div 400
MIN_SAFE_DIST_M == 6000
TORQUE_LEVEL_ACC == 0
TORQUE_LEVEL_DECEL == -30000
MIN_PCC_V_KPH == 0
MAX_PCC_V_KPH == 270000
ANGLE_STOP_ACCEL == 10000
STALK_DOUBLE_PULL_MS == 750
PEDAL_TIMEOUT_FRAMES == 50
RESET_PERIOD_FRAMES == 50
PEDAL_IDX_MOD == 16
PEDAL_FOR_ZERO_TORQUE_INIT == 18000
PREV_STALK_PULL_INIT == -1000

\* PCCState
PCC_OFF == 0
PCC_STANDBY == 1
PCC_ENABLED == 2
PCC_NOT_READY == 9
PCCStates == {PCC_OFF, PCC_STANDBY, PCC_ENABLED, PCC_NOT_READY}

\* selfdrive.config Conversions
MS_TO_KPH(v) == (v * 36) \div 10
KPH_TO_MS(v) == (v * 10) \div 36
MPH_TO_KPH == 1609
MPH_TO_MS == 447

\* selfdrive.car.tesla.values
CruiseButtons == {"IDLE", "MAIN", "CANCEL", "RES_ACCEL", "RES_ACCEL_2ND",
                  "DECEL_SET", "DECEL_2ND"}
CRUISE_OFF == 0
CruiseState_is_off(state) == state = CRUISE_OFF

\* common.numpy_fast
clip(x, lo, hi) == Max(lo, Min(hi, x))

\* floor(a * b / c) for 0 <= a <= c, without leaving 32 bits
MulDiv(a, b, c) ==
    LET bh == b \div Milli
        bl == b % Milli
        q == (a * bh) \div c
        r == (a * bh) % c
    IN  Milli * q + (Milli * r + a * bl) \div c

RECURSIVE interp_from(_, _, _, _)
interp_from(x, xp, fp, hi) ==
    IF hi <= Len(xp) /\ x > xp[hi]
    THEN interp_from(x, xp, fp, hi + 1)
    ELSE IF hi = 1 THEN fp[1]
         ELSE LET low == hi - 1 IN
              IF hi > Len(xp) THEN fp[Len(fp)]
              ELSE MulDiv(x - xp[low], fp[hi] - fp[low], xp[hi] - xp[low])
                   + fp[low]

interp(x, xp, fp) == interp_from(x, xp, fp, 1)

\* _interp_map with the OrderedDict given as a sequence of <<key, value>>
_interp_map(val, val_map) ==
    interp(val, [i \in 1..Len(val_map) |-> val_map[i][1]],
                [i \in 1..Len(val_map) |-> val_map[i][2]])

---------------------------------------------------------------------------
(* PCCController.__init__ *)

InitSelf ==
    [ pcc_available |-> FALSE,
      prev_pcc_available |-> FALSE,
      pedal_timeout_frame |-> 0,
      lead_1 |-> None,
      enable_pedal_cruise |-> FALSE,
      stalk_pull_time_ms |-> 0,
      prev_stalk_pull_time_ms |-> PREV_STALK_PULL_INIT,
      prev_cruise_buttons |-> "IDLE",
      pedal_speed_kph |-> 0,
      speed_limit_kph |-> 0,
      prev_speed_limit_kph |-> 0,
      pedal_idx |-> 0,
      pedal_steady |-> 0,
      prev_tesla_accel |-> 0,
      prev_tesla_pedal |-> 0,
      PedalForZeroTorque |-> PEDAL_FOR_ZERO_TORQUE_INIT,
      lastTorqueForPedalForZeroTorque |-> TORQUE_LEVEL_DECEL,
      last_speed_kph |-> None,
      lead_last_seen_time_ms |-> 0,
      continuous_lead_sightings |-> 0 ]

---------------------------------------------------------------------------
(* The rolling message counter, lines 252 and 413 *)

next_pedal_idx_nowrap(idx) == idx + 1

next_pedal_idx(idx) == (idx + 1) % PEDAL_IDX_MOD

---------------------------------------------------------------------------
(* PCCController._update_pedal_state *)

pedal_ready_ignores_fault(s, CS, frame_in) ==
    frame_in < s.pedal_timeout_frame

\* lines 769-771
pedal_ready_of(s, CS, frame_in) ==
    frame_in < s.pedal_timeout_frame /\ CS.pedal_interceptor_state = 0

acc_disabled_ignores_override(CS) ==
    CruiseState_is_off(CS.pcm_acc_status)

\* line 772
acc_disabled_of(CS) ==
    CS.forcePedalOverCC \/ CruiseState_is_off(CS.pcm_acc_status)

refresh_timeout_always(s, CS, frame_in) ==
    [s EXCEPT !.pedal_timeout_frame = frame_in + PEDAL_TIMEOUT_FRAMES]

\* lines 765-767: "time out pedal after 500ms without receiving a new CAN
\* message from it"
refresh_timeout(s, CS, frame_in) ==
    IF CS.pedal_idx # CS.prev_pedal_idx
    THEN [s EXCEPT !.pedal_timeout_frame = frame_in + PEDAL_TIMEOUT_FRAMES]
    ELSE s

_update_pedal_state(s, CS, frame_in) ==
    LET s1 == refresh_timeout(s, CS, frame_in)
        s2 == [s1 EXCEPT !.prev_pcc_available = s1.pcc_available]
    IN  [s2 EXCEPT !.pcc_available = pedal_ready_of(s2, CS, frame_in)
                                     /\ acc_disabled_of(CS)]

\* the CS.config_ui_buttons call made on a change of availability:
\* None, or the pair of its arguments
config_ui_buttons_call(s, CS, frame_in) ==
    LET s2 == _update_pedal_state(s, CS, frame_in) IN
    IF s2.pcc_available # s2.prev_pcc_available
    THEN Some(<<s2.pcc_available,
                pedal_ready_of(s2, CS, frame_in) /\ ~acc_disabled_of(CS)>>)
    ELSE None

---------------------------------------------------------------------------
(* PCCController.update_stat *)

speed_uom_kph(CS) == IF CS.imperial_speed_units THEN MPH_TO_KPH ELSE Milli

\* int(CS.v_ego * CV.MS_TO_KPH / speed_uom_kph + 0.5) * speed_uom_kph
speed_kph_uom_rounded(CS) ==
    IntPart(Div(MS_TO_KPH(CS.v_ego), speed_uom_kph(CS)) + Milli \div 2)
        * speed_uom_kph(CS)

reset_can_sends_every_frame(s, CS, frame_in) ==
    LET timed_out == frame_in >= s.pedal_timeout_frame IN
    IF timed_out \/ CS.pedal_interceptor_state > 0
    THEN << [pedal |-> 0, enable |-> 0, idx |-> s.pedal_idx,
             bus |-> IF CS.useWithoutHarness THEN 0 ELSE 2] >>
    ELSE << >>

\* the branch taken when the actuator path is unavailable: the messages sent
reset_can_sends(s, CS, frame_in) ==
    LET timed_out == frame_in >= s.pedal_timeout_frame IN
    IF (timed_out \/ CS.pedal_interceptor_state > 0)
       /\ frame_in % RESET_PERIOD_FRAMES = 0
    THEN << [pedal |-> 0, enable |-> 0, idx |-> s.pedal_idx,
             bus |-> IF CS.useWithoutHarness THEN 0 ELSE 2] >>
    ELSE << >>

unavailable_alert(s, CS, frame_in) ==
    LET timed_out == frame_in >= s.pedal_timeout_frame IN
    IF (timed_out \/ CS.pedal_interceptor_state > 0) /\ s.prev_pcc_available
    THEN << IF timed_out THEN "Pedal Interceptor timed out"
            ELSE "Pedal Interceptor fault" >>
    ELSE << >>

\* "disable on brake"
brake_disable_clears_pedal(s, CS) ==
    IF CS.brake_pressed /\ s.enable_pedal_cruise
    THEN [s EXCEPT !.enable_pedal_cruise = FALSE, !.prev_tesla_pedal = 0]
    ELSE s

brake_disable(s, CS) ==
    IF CS.brake_pressed /\ s.enable_pedal_cruise
    THEN [s EXCEPT !.enable_pedal_cruise = FALSE]
    ELSE s

main_press_edge(s, CS) ==
    CS.cruise_buttons = "MAIN" /\ s.prev_cruise_buttons # "MAIN"

double_pull_wide(stalk_ms, prev_stalk_ms) ==
    stalk_ms - prev_stalk_ms < 2 * STALK_DOUBLE_PULL_MS

double_pull(stalk_ms, prev_stalk_ms) ==
    stalk_ms - prev_stalk_ms < STALK_DOUBLE_PULL_MS

ready_any_status(status, CS) ==
    CruiseState_is_off(CS.pcm_acc_status) \/ CS.forcePedalOverCC

ready(status, CS) ==
    (status > PCC_OFF /\ CruiseState_is_off(CS.pcm_acc_status))
    \/ CS.forcePedalOverCC

single_pull_timeout_any_gap(s, curr_time_ms) ==
    /\ s.enable_pedal_cruise
    /\ curr_time_ms - s.stalk_pull_time_ms > STALK_DOUBLE_PULL_MS

\* lines 335-340
single_pull_timeout(s, curr_time_ms) ==
    /\ s.enable_pedal_cruise
    /\ curr_time_ms - s.stalk_pull_time_ms > STALK_DOUBLE_PULL_MS
    /\ s.stalk_pull_time_ms - s.prev_stalk_pull_time_ms > STALK_DOUBLE_PULL_MS

adjust_speed_unclipped(s, CS) ==
    LET uom == speed_uom_kph(CS)
        actual == speed_kph_uom_rounded(CS)
        b == CS.cruise_buttons
    IN  [s EXCEPT !.pedal_speed_kph =
            IF b = "RES_ACCEL" THEN Max(s.pedal_speed_kph, actual) + uom
            ELSE IF b = "RES_ACCEL_2ND"
                 THEN Max(s.pedal_speed_kph, actual) + 5 * uom
            ELSE IF b = "DECEL_SET" THEN s.pedal_speed_kph - uom
            ELSE IF b = "DECEL_2ND" THEN s.pedal_speed_kph - 5 * uom
            ELSE s.pedal_speed_kph]

\* "Handle pressing up and down buttons.", lines 309-329
adjust_speed(s, CS) ==
    LET uom == speed_uom_kph(CS)
        actual == speed_kph_uom_rounded(CS)
        b == CS.cruise_buttons
        v == IF b = "RES_ACCEL" THEN Max(s.pedal_speed_kph, actual) + uom
             ELSE IF b = "RES_ACCEL_2ND"
                  THEN Max(s.pedal_speed_kph, actual) + 5 * uom
             ELSE IF b = "DECEL_SET" THEN s.pedal_speed_kph - uom
             ELSE IF b = "DECEL_2ND" THEN s.pedal_speed_kph - 5 * uom
             ELSE s.pedal_speed_kph
    IN  [s EXCEPT !.pedal_speed_kph = clip(v, MIN_PCC_V_KPH, MAX_PCC_V_KPH)]

cancel_reset_keeps_pulls(s) ==
    [s EXCEPT !.enable_pedal_cruise = FALSE,
              !.pedal_speed_kph = 0]

\* "Handle pressing the cancel button.", lines 300-304
cancel_reset(s) ==
    [s EXCEPT !.enable_pedal_cruise = FALSE,
              !.pedal_speed_kph = 0,
              !.stalk_pull_time_ms = 0,
              !.prev_stalk_pull_time_ms = PREV_STALK_PULL_INIT]

\* the stalk and button chain, lines 272-341
process_stalk(s, status, CS, curr_time_ms) ==
    IF main_press_edge(s, CS)
    THEN LET s1 == [s EXCEPT !.prev_stalk_pull_time_ms = s.stalk_pull_time_ms,
                             !.stalk_pull_time_ms = curr_time_ms]
         IN  IF ready(status, CS)
                /\ double_pull(s1.stalk_pull_time_ms, s1.prev_stalk_pull_time_ms)
             THEN [s1 EXCEPT !.enable_pedal_cruise = TRUE,
                             !.pedal_speed_kph =
                                 Max(speed_kph_uom_rounded(CS), s1.speed_limit_kph)]
             ELSE s1
    ELSE IF CS.cruise_buttons = "CANCEL"
    THEN cancel_reset(s)
    ELSE IF s.enable_pedal_cruise /\ CS.cruise_buttons # s.prev_cruise_buttons
    THEN adjust_speed(s, CS)
    ELSE IF s.enable_pedal_cruise /\ CS.pcm_acc_status # 0 /\ ~CS.forcePedalOverCC
    THEN [s EXCEPT !.enable_pedal_cruise = FALSE]
    ELSE IF single_pull_timeout(s, curr_time_ms)
    THEN [s EXCEPT !.enable_pedal_cruise = FALSE]
    ELSE s

\* "Notify if PCC was toggled": the button status and the side effects
toggle_status(prev_enable, enable, status) ==
    IF prev_enable /\ ~enable THEN PCC_STANDBY
    ELSE IF enable /\ ~prev_enable THEN PCC_ENABLED
    ELSE status

toggle_alerts_disable_only(prev_enable, enable) ==
    IF prev_enable /\ ~enable THEN << "PCC Disabled" >> ELSE << >>

toggle_alerts(prev_enable, enable) ==
    IF prev_enable /\ ~enable THEN << "PCC Disabled" >>
    ELSE IF enable /\ ~prev_enable THEN << "PCC Enabled" >>
    ELSE << >>

\* "Update the UI to show whether the current car state allows PCC."
mirror_status(status, CS) ==
    IF status \in {PCC_STANDBY, PCC_NOT_READY}
    THEN IF CruiseState_is_off(CS.pcm_acc_status) \/ CS.forcePedalOverCC
         THEN PCC_STANDBY ELSE PCC_NOT_READY
    ELSE status

advance_for_reset_never(s, sends) == s

\* lines 251-252: the reset command takes the index and advances it
advance_for_reset(s, sends) ==
    IF sends # << >>
    THEN [s EXCEPT !.pedal_idx = next_pedal_idx(s.pedal_idx)]
    ELSE s

\* the whole of update_stat as a function of the state before and the inputs
update_stat(s, status, CS, frame_in, curr_time_ms) ==
    LET s0 == _update_pedal_state(s, CS, frame_in)
        ui == config_ui_buttons_call(s, CS, frame_in)
    IN
    IF ~s0.pcc_available
    THEN LET sends == reset_can_sends(s0, CS, frame_in) IN
         [ self |-> advance_for_reset(s0, sends),
           btn |-> status,
           can_sends |-> sends,
           alerts |-> unavailable_alert(s0, CS, frame_in),
           save_pid |-> FALSE,
           ui_config |-> ui ]
    ELSE LET prev_enable == s0.enable_pedal_cruise
             s1 == brake_disable(s0, CS)
             s2 == process_stalk(s1, status, CS, curr_time_ms)
             st == toggle_status(prev_enable, s2.enable_pedal_cruise, status)
         IN
         [ self |-> [s2 EXCEPT !.prev_cruise_buttons = CS.cruise_buttons],
           btn |-> mirror_status(st, CS),
           can_sends |-> << >>,
           alerts |-> toggle_alerts(prev_enable, s2.enable_pedal_cruise),
           save_pid |-> prev_enable /\ ~s2.enable_pedal_cruise,
           ui_config |-> ui ]

---------------------------------------------------------------------------
(* Lead helpers *)

_is_present_at_zero(lead) == ~IsNone(lead) /\ The(lead).dRel >= 0

\* _is_present: lead is an optional radar lead
_is_present(lead) == ~IsNone(lead) /\ The(lead).dRel > 0

_safe_distance_m(v_ego_ms, CS) ==
    Max(Mul(CS.apFollowTimeInS, v_ego_ms + Milli), MIN_SAFE_DIST_M)

\* _visual_radar_adjusted_dist_m: 7 m -> 0 m, 1000 m -> 1000 m
_visual_radar_adjusted_dist_m(m, CS) ==
    _interp_map(m, << <<7000, 0>>, <<1000000, 1000000>> >>)

_brake_pedal_min(v_ego, v_target, lead, CS, max_speed_kph) ==
    IF v_ego <= 7 * MPH_TO_MS THEN -Milli
    ELSE IF MS_TO_KPH(v_ego) > max_speed_kph THEN -800
    ELSE
    LET speed_delta_perc == (((v_ego - v_target) * 10000) \div v_ego) * 10
        brake_mult1 == _interp_map(speed_delta_perc,
                          << <<0, 300>>, <<1500, 500>>, <<5000, 800>>,
                             <<7000, 1000>>, <<50000, 1000>> >>)
        safe_dist_m == _safe_distance_m(CS.v_ego, CS)
        brake_mult2 == IF _is_present(lead)
                       THEN _interp_map(The(lead).dRel,
                               << <<Mul(800, safe_dist_m), 1000>>,
                                  <<safe_dist_m, 600>>,
                                  <<3 * safe_dist_m, 400>> >>)
                       ELSE 0
    IN  -Max(brake_mult1, brake_mult2)

---------------------------------------------------------------------------
(* PCCController.pedal_hysteresis: the new pedal_steady, which it returns *)

pedal_hysteresis_snap(pedal_steady, pedal, enabled) ==
    IF ~enabled THEN 0
    ELSE IF pedal > pedal_steady + PEDAL_HYST_GAP THEN pedal
    ELSE IF pedal < pedal_steady - PEDAL_HYST_GAP THEN pedal
    ELSE pedal_steady

pedal_hysteresis(pedal_steady, pedal, enabled) ==
    IF ~enabled THEN 0
    ELSE IF pedal > pedal_steady + PEDAL_HYST_GAP THEN pedal - PEDAL_HYST_GAP
    ELSE IF pedal < pedal_steady - PEDAL_HYST_GAP THEN pedal + PEDAL_HYST_GAP
    ELSE pedal_steady

---------------------------------------------------------------------------
(* PCCController.update_pdl *)

\* "Determine pedal zero", lines 392-400
zero_torque_detected(s, CS) ==
    /\ CS.torqueLevel < TORQUE_LEVEL_ACC
    /\ CS.torqueLevel > TORQUE_LEVEL_DECEL
    /\ CS.v_ego >= 10 * MPH_TO_MS
    /\ Abs(CS.torqueLevel) < Abs(s.lastTorqueForPedalForZeroTorque)
    /\ s.prev_tesla_accel > 0

calibrate_zero_torque(s, CS) ==
    IF zero_torque_detected(s, CS)
    THEN [s EXCEPT !.PedalForZeroTorque = s.prev_tesla_accel,
                   !.lastTorqueForPedalForZeroTorque = CS.torqueLevel]
    ELSE s

\* lines 405-412
update_speed_limit_sticky(s, speed_limit_ms, set_speed_limit_active, speed_limit_offset) ==
    IF set_speed_limit_active /\ speed_limit_ms > 0
    THEN LET s1 == [s EXCEPT !.speed_limit_kph =
                                 MS_TO_KPH(speed_limit_ms + speed_limit_offset)]
         IN  IF IntPart(s1.prev_speed_limit_kph) # IntPart(s1.speed_limit_kph)
             THEN [s1 EXCEPT !.pedal_speed_kph = s1.speed_limit_kph]
             ELSE s1
    ELSE s

update_speed_limit(s, speed_limit_ms, set_speed_limit_active, speed_limit_offset) ==
    IF set_speed_limit_active /\ speed_limit_ms > 0
    THEN LET s1 == [s EXCEPT !.speed_limit_kph =
                                 MS_TO_KPH(speed_limit_ms + speed_limit_offset)]
         IN  IF IntPart(s1.prev_speed_limit_kph) # IntPart(s1.speed_limit_kph)
             THEN [s1 EXCEPT !.pedal_speed_kph = s1.speed_limit_kph]
             ELSE s1
    ELSE [s EXCEPT !.speed_limit_kph = 0]

ingest_radar_keeps_streak(s, radSt, curr_time_ms) ==
    IF IsNone(radSt) THEN s
    ELSE LET s1 == [s EXCEPT !.lead_1 = radSt] IN
         IF _is_present(s1.lead_1)
         THEN [s1 EXCEPT !.lead_last_seen_time_ms = curr_time_ms,
                         !.continuous_lead_sightings = @ + 1]
         ELSE s1

\* lines 420-428: radSt is the optional radarState message, carrying leadOne
ingest_radar(s, radSt, curr_time_ms) ==
    IF IsNone(radSt) THEN s
    ELSE LET s1 == [s EXCEPT !.lead_1 = radSt] IN
         IF _is_present(s1.lead_1)
         THEN [s1 EXCEPT !.lead_last_seen_time_ms = curr_time_ms,
                         !.continuous_lead_sightings = @ + 1]
         ELSE [s1 EXCEPT !.continuous_lead_sightings = 0]

\* lines 574-610: the pedal value before the final gating
MPC_BRAKE_MULTIPLIER == 12

slew_limit_symmetric(tesla_pedal, prev_tesla_pedal) ==
    clip(tesla_pedal, prev_tesla_pedal - PEDAL_MAX_DOWN,
                      prev_tesla_pedal + PEDAL_MAX_DOWN)

\* lines 603-607: the slew-rate limit around the previous output
slew_limit(tesla_pedal, prev_tesla_pedal) ==
    clip(tesla_pedal, prev_tesla_pedal - PEDAL_MAX_DOWN,
                      prev_tesla_pedal + PEDAL_MAX_UP)

\* lines 580-601: the raw pedal value, tesla_brake + tesla_accel
raw_pedal(s, CS, output_gb, v_pid) ==
    LET apply_accel == clip(output_gb, 0, Milli)
        apply_brake == -clip(output_gb * MPC_BRAKE_MULTIPLIER,
                             _brake_pedal_min(CS.v_ego, v_pid, s.lead_1, CS,
                                              s.pedal_speed_kph),
                             0)
        pedal_zero == IF CS.v_ego >= 5 * MPH_TO_MS THEN s.PedalForZeroTorque ELSE 0
        tesla_brake == clip(Mul(Milli - apply_brake, pedal_zero), 0, pedal_zero)
        tesla_accel == clip(Mul(apply_accel, MAX_PEDAL_VALUE - pedal_zero),
                            0, MAX_PEDAL_VALUE - pedal_zero)
    IN  tesla_brake + tesla_accel

encode_pedal(s, enabled, CS, output_gb, v_pid) ==
    LET apply_accel == clip(output_gb, 0, Milli)
        steady == pedal_hysteresis(s.pedal_steady,
                                   raw_pedal(s, CS, output_gb, v_pid), enabled)
        slewed == slew_limit(steady, s.prev_tesla_pedal)
    IN  [ apply_accel |-> apply_accel, pedal_steady |-> steady, tesla_pedal |-> slewed ]

\* lines 608-611: the final gating on the engagement flag
gate_pedal(s, tesla_pedal) ==
    IF s.enable_pedal_cruise THEN clip(tesla_pedal, 0, MAX_PEDAL_VALUE) ELSE 0

enable_pedal_bit_stuck(s) == 1

\* line 611
enable_pedal_bit(s) == IF s.enable_pedal_cruise THEN 1 ELSE 0

\* the whole of update_pdl as a function of the state before and the inputs;
\* ret is the returned triple (pedal value, enable bit, index)
update_pdl(s, enabled, CS, actuators, pcm_speed, speed_limit_ms, set_speed_limit_active, speed_limit_offset, radSt, curr_time_ms) ==
    LET idx == s.pedal_idx
        s1 == [s EXCEPT !.prev_speed_limit_kph = s.speed_limit_kph]
        s2 == calibrate_zero_torque(s1, CS)
        s3 == update_speed_limit(s2, speed_limit_ms, set_speed_limit_active,
                                 speed_limit_offset)
        s4 == [s3 EXCEPT !.pedal_idx = next_pedal_idx(s3.pedal_idx)]
    IN
    IF ~s4.pcc_available \/ ~enabled
    THEN [ self |-> s4, ret |-> <<0, 0, idx>>, encoded |-> FALSE ]
    ELSE LET s5 == ingest_radar(s4, radSt, curr_time_ms)
             e == encode_pedal(s5, enabled, CS, actuators.gas - actuators.brake,
                               pcm_speed)
             enable_pedal == enable_pedal_bit(s5)
             tesla_pedal == gate_pedal(s5, e.tesla_pedal)
             s6 == [s5 EXCEPT !.pedal_steady = e.pedal_steady,
                              !.prev_tesla_pedal = tesla_pedal * enable_pedal,
                              !.prev_tesla_accel = e.apply_accel * enable_pedal]
         IN  [ self |-> s6,
               ret |-> <<s6.prev_tesla_pedal, enable_pedal, idx>>,
               encoded |-> TRUE ]

---------------------------------------------------------------------------
(* Follow-speed planner: PCCController.calc_follow_speed_ms and its helpers *)

_max_safe_speed_kph(lead, CS) ==
    IF _is_present(lead)
    THEN MS_TO_KPH(CS.v_ego + The(lead).vRel
                   + Div(The(lead).dRel - _safe_distance_m(CS.v_ego, CS),
                         CS.apFollowTimeInS))
    ELSE MAX_PCC_V_KPH

_min_safe_vrel_kph(lead, CS, actual_speed_kph) ==
    IF MS_TO_KPH(The(lead).vLeadK) > actual_speed_kph THEN -100000
    ELSE _interp_map(The(lead).dRel,
                     << <<MIN_SAFE_DIST_M, 2000>>, <<100000, -25000>>,
                        <<1000000, -50000>> >>)

follow_lead_dist_m_raw(lead, CS) == The(lead).dRel

\* lead_dist_m, lines 626-628
follow_lead_dist_m(lead, CS) ==
    IF CS.useTeslaRadar THEN The(lead).dRel
    ELSE _visual_radar_adjusted_dist_m(The(lead).dRel, CS)

\* rel_speed_kph, lines 630-632: jitter below 0.5 m/s is zeroed
follow_rel_speed_kph(lead) ==
    MS_TO_KPH(IF Abs(The(lead).vRel) > 500 THEN The(lead).vRel ELSE 0)

\* the cruise zone, lines 674-736
cruise_zone_speed_kph(new_speed_kph, lead, CS, lead_dist_m, safe_dist_m, actual_speed_kph, lead_absolute_speed_kph) ==
    LET v_kph == MS_TO_KPH(CS.v_ego)
        min_vrel_kph ==
            _interp_map(lead_dist_m,
                << <<safe_dist_m \div 2, 3000>>,
                   <<safe_dist_m, -1000 - Mul(25, v_kph)>>,
                   <<Mul(1500, safe_dist_m), -5000 - Mul(50, v_kph)>>,
                   <<3 * safe_dist_m, -10000 - Mul(100, v_kph)>> >>)
        max_vrel_kph ==
            _interp_map(lead_dist_m,
                << <<safe_dist_m \div 2, 6000>>,
                   <<safe_dist_m, 2000>>,
                   <<Mul(1500, safe_dist_m), -3000>>,
                   <<3 * safe_dist_m, -7000>> >>)
        min_kph == lead_absolute_speed_kph - max_vrel_kph
        max_kph == lead_absolute_speed_kph - min_vrel_kph
        n1 == IF /\ lead_dist_m >= Mul(800, safe_dist_m)
                 /\ lead_absolute_speed_kph > actual_speed_kph
                 /\ The(lead).aLeadK >= 0
              THEN lead_absolute_speed_kph ELSE new_speed_kph
        n2 == clip(n1, min_kph, max_kph)
        n3 == IF /\ actual_speed_kph > n2
                 /\ min_kph < actual_speed_kph /\ actual_speed_kph < max_kph
                 /\ lead_absolute_speed_kph > 30000
              THEN actual_speed_kph ELSE n2
    IN  Min(Min(n3, _max_safe_speed_kph(lead, CS)),
            Max(lead_absolute_speed_kph
                - _min_safe_vrel_kph(lead, CS, actual_speed_kph), 2000))

\* "Logic to determine best cruise speed", lines 642-736
best_cruise_speed_kph(s, new_speed_kph, CS, lead_dist_m, rel_speed_kph) ==
    LET safe_dist_m == _safe_distance_m(CS.v_ego, CS)
        actual_speed_kph == MS_TO_KPH(CS.v_ego)
        lead_absolute_speed_kph == actual_speed_kph + rel_speed_kph
    IN
    IF ~s.enable_pedal_cruise THEN new_speed_kph
    ELSE IF lead_dist_m = 0 \/ lead_dist_m > MAX_RADAR_DISTANCE
    THEN s.pedal_speed_kph
    ELSE IF lead_dist_m > 0
    THEN IF lead_dist_m < MIN_SAFE_DIST_M /\ rel_speed_kph >= 3000
         THEN actual_speed_kph
         ELSE IF lead_dist_m < MIN_SAFE_DIST_M THEN MIN_PCC_V_KPH
         ELSE IF safe_dist_m + 2000 > lead_dist_m /\ lead_dist_m > MIN_SAFE_DIST_M
         THEN lead_absolute_speed_kph
              - _interp_map(lead_dist_m,
                    << <<safe_dist_m \div 2, 3000>>,
                       <<Mul(800, safe_dist_m), 2000>>,
                       <<safe_dist_m, 0>> >>)
         ELSE cruise_zone_speed_kph(new_speed_kph, s.lead_1, CS, lead_dist_m,
                                    safe_dist_m, actual_speed_kph,
                                    lead_absolute_speed_kph)
    ELSE new_speed_kph

\* "BB Last safety check. Zero if below MIN_SAFE_DIST_M", lines 747-749
last_safety_check(new_speed_kph, lead_dist_m, rel_speed_kph) ==
    IF MIN_SAFE_DIST_M > lead_dist_m /\ lead_dist_m > 0 /\ rel_speed_kph < 3000
    THEN MIN_PCC_V_KPH
    ELSE new_speed_kph

\* "Don't accelerate during manual turns, curves or ALCA."
turn_suppressed(CS, alca_enabled) ==
    CS.turn_signal_blinking \/ Abs(CS.angle_steers) > ANGLE_STOP_ACCEL
    \/ alca_enabled

\* the whole method: the state after it and the optional value it returns (m/s)
calc_follow_speed_ms(s, CS, alca_enabled) ==
    IF IsNone(s.lead_1) THEN [ self |-> s, ret |-> None ]
    ELSE
    LET lead_dist_m == follow_lead_dist_m(s.lead_1, CS)
        rel_speed_kph == follow_rel_speed_kph(s.lead_1)
        last == IF IsNone(s.last_speed_kph) THEN MS_TO_KPH(CS.v_ego)
                ELSE The(s.last_speed_kph)
        n1 == best_cruise_speed_kph(s, last, CS, lead_dist_m, rel_speed_kph)
        n2 == clip(n1, MIN_PCC_V_KPH, MAX_PCC_V_KPH)
        n3 == clip(n2, MIN_PCC_V_KPH, s.pedal_speed_kph)
        n4 == IF turn_suppressed(CS, alca_enabled) THEN Min(n3, last) ELSE n3
        n5 == last_safety_check(n4, lead_dist_m, rel_speed_kph)
    IN  [ self |-> [s EXCEPT !.last_speed_kph = Some(n5)],
          ret |-> Some(KPH_TO_MS(n5)) ]

---------------------------------------------------------------------------
(* Envelope: _sec_til_collision and _decel_limit *)

SEC_TIL_COLLISION_NONE == 60000

_sec_til_collision(lead, CS) ==
    IF _is_present(lead) /\ The(lead).vRel < 0
    THEN LET closing == Abs(The(lead).vRel
                            + Mul(Min(0, The(lead).aRel), CS.apFollowTimeInS))
         IN  IF CS.useTeslaRadar
             THEN Min(100, -4000 + Div(The(lead).dRel, closing))
             ELSE Div(_visual_radar_adjusted_dist_m(The(lead).dRel, CS), closing)
    ELSE SEC_TIL_COLLISION_NONE

max_speed_mult_flat(v_ego, max_speed_kph) == Milli

\* the multiplier applied when the ego speed is over the user target
max_speed_mult(v_ego, max_speed_kph) ==
    LET overshot == MS_TO_KPH(v_ego) - max_speed_kph IN
    IF MS_TO_KPH(v_ego) > max_speed_kph
    THEN IF overshot >= 5000 THEN 2000
         ELSE IF overshot >= 2000 THEN 1500 ELSE Milli
    ELSE Milli

FULL_BRAKE == -100000

_decel_limit(accel_min, v_ego, lead, CS, max_speed_kph) ==
    LET mult == max_speed_mult(v_ego, max_speed_kph)
        safe_dist_m == _safe_distance_m(v_ego, CS)
    IN
    IF _is_present(lead)
    THEN LET time_to_brake == Max(100, _sec_til_collision(lead, CS))
             l == The(lead)
         IN
         IF 0 < l.dRel /\ l.dRel < MIN_SAFE_DIST_M THEN FULL_BRAKE
         ELSE IF /\ l.vRel >= v_ego \div 10
                 /\ l.aRel < 500
                 /\ l.dRel <= Mul(1100, safe_dist_m)
         THEN -2000 + l.aRel
         ELSE IF /\ l.vRel <= v_ego \div 10
                 /\ l.aLeadK < 500
                 /\ l.dRel <= Mul(1100, safe_dist_m)
         THEN -2000 + l.aRel + Min(Div(3 * l.vRel, time_to_brake), -700)
         ELSE IF l.vRel < -(v_ego \div 10) /\ l.dRel <= Mul(1100, safe_dist_m)
         THEN -3000 + Div(2 * l.vRel, time_to_brake)
         ELSE Mul(Mul(Mul(accel_min, mult),
                      _interp_map(_sec_til_collision(lead, CS),
                          << <<0, 10000>>, <<4000, 1000>>, <<7000, 500>>,
                             <<10000, 300>> >>)),
                  _interp_map(v_ego,
                      << <<0, 10000>>, <<4000, 5000>>, <<7000, 2500>>,
                         <<10000, 1000>> >>))
    ELSE Mul(accel_min \div 2, mult)

---------------------------------------------------------------------------
(* Bounds and input domains *)

StartMs == 2000        \* the first clock reading is later than StartMs
MaxFrame == 4          \* Spec runs the cycles of frames 0..MaxFrame
MaxFramePdl == 9      \* SpecPdl runs the cycles of frames 0..MaxFramePdl
MaxFrameIdx == 17      \* SpecIdx runs the cycles of frames 0..MaxFrameIdx
MaxFrameSpeed == 3     \* SpecSpeed runs the cycles of frames 0..MaxFrameSpeed
MaxFrameStalk == 7     \* SpecStalk runs the cycles of frames 0..MaxFrameStalk
MaxFrameTimeout == 52  \* SpecTimeout runs the cycles of frames 0..MaxFrameTimeout
MaxFrameLead == 4      \* SpecLead runs the cycles of frames 0..MaxFrameLead
MaxFrameTorque == 4    \* SpecTorque runs the cycles of frames 0..MaxFrameTorque
MaxFrameLimit == 3     \* SpecLimit runs the cycles of frames 0..MaxFrameLimit
MaxSightings == 2      \* cap on continuous_lead_sightings

\* clock advance from one cycle to the next, in ms: two cycles take less than,
\* exactly, or more than STALK_DOUBLE_PULL_MS
TimeSteps == {374, 376}

\* a radar lead (radarState.leadOne)
Lead(dRel, vRel, aRel, vLeadK, aLeadK) ==
    [ dRel |-> dRel, vRel |-> vRel, aRel |-> aRel,
      vLeadK |-> vLeadK, aLeadK |-> aLeadK, status |-> dRel > 0 ]

\* car states read by update_stat
StatCSOf(idx, fault, force, acc, brake, buttons, v, imperial) ==
    [ pedal_idx : idx, prev_pedal_idx : {0},
      pedal_interceptor_state : fault,
      forcePedalOverCC : force,
      pcm_acc_status : acc,
      brake_pressed : brake,
      cruise_buttons : buttons,
      v_ego : v,
      imperial_speed_units : imperial,
      useWithoutHarness : {FALSE} ]

\* car states read by update_pdl
PdlCSOf(torque, v, follow) ==
    [ torqueLevel : torque, v_ego : v, apFollowTimeInS : follow ]

\* the speed-limit arguments of update_pdl:
\* <<set_speed_limit_active, speed_limit_ms, speed_limit_offset>>
NoSpeedLimit == <<FALSE, 0, 0>>

\* no limit; a 108 kph limit; a 3.6 kph limit with an offset of -2 m/s
SpeedLimits == { NoSpeedLimit, <<TRUE, 30000, 0>>, <<TRUE, 1000, -2000>> }

---------------------------------------------------------------------------
(* The control loop: each cycle calls update_stat, then update_pdl *)

NoPdlYet ==
    [ ret |-> None, encoded |-> FALSE, sl |-> NoSpeedLimit, run |-> None ]

Init ==
    /\ self = InitSelf
    /\ btn \in {PCC_OFF, PCC_STANDBY}
    /\ frame = 0
    /\ now = StartMs
    /\ call = [ op |-> "idle" ]
    /\ last_pdl = NoPdlYet
    /\ sent_idx = None
    /\ pc = "update_stat"

\* the caller takes the results of the call and goes on
Return ==
    /\ call.op # "idle"
    /\ call' = [ op |-> "idle" ]
    /\ UNCHANGED <<self, btn, frame, now, last_pdl, sent_idx, pc>>

\* one call of update_stat(CS, frame) at clock reading t
UpdateStatCall(CS, t) ==
    LET r == update_stat(self, btn, CS, frame, t) IN
    /\ call.op = "idle" /\ pc = "update_stat"
    /\ self' = r.self
    /\ btn' = r.btn
    /\ now' = t
    /\ call' = [ op |-> "update_stat", CS |-> CS, frame |-> frame, t |-> t,
                 pre |-> self, pre_btn |-> btn,
                 can_sends |-> r.can_sends, alerts |-> r.alerts,
                 save_pid |-> r.save_pid, ui_config |-> r.ui_config,
                 sent_before |-> sent_idx ]
    /\ sent_idx' = IF r.can_sends # << >>
                   THEN Some(r.can_sends[Len(r.can_sends)].idx)
                   ELSE sent_idx
    /\ pc' = "update_pdl"
    /\ UNCHANGED <<frame, last_pdl>>

\* one call of update_pdl in the same cycle; sl is the speed-limit triple
UpdatePdlCall(enabled, CS, actuators, pcm_speed, sl, radSt) ==
    LET r == update_pdl(self, enabled, CS, actuators, pcm_speed, sl[2], sl[1],
                        sl[3], radSt, now)
    IN
    /\ call.op = "idle" /\ pc = "update_pdl"
    /\ r.self.continuous_lead_sightings <= MaxSightings
    /\ self' = r.self
    /\ call' = [ op |-> "update_pdl", enabled |-> enabled, CS |-> CS,
                 actuators |-> actuators, sl |-> sl, radSt |-> radSt,
                 pre |-> self, ret |-> r.ret, encoded |-> r.encoded,
                 prev |-> last_pdl, sent_before |-> sent_idx ]
    /\ last_pdl' = [ ret |-> Some(r.ret), encoded |-> r.encoded, sl |-> sl,
                     run |-> IF r.encoded THEN Some(r.ret[1]) ELSE last_pdl.run ]
    /\ sent_idx' = Some(r.ret[3])
    /\ frame' = frame + 1
    /\ pc' = "update_stat"
    /\ UNCHANGED <<btn, now>>

UpdateStatOver(D, T, F) ==
    \E CS \in D, dt \in T :
        /\ frame <= F
        /\ UpdateStatCall(CS, now + dt)

UpdatePdlOver(E, D, G, L, R) ==
    \E enabled \in E, CS \in D, gas \in G, sl \in L, radSt \in R :
        UpdatePdlCall(enabled, CS, [gas |-> Max(gas, 0), brake |-> Max(-gas, 0)],
                      CS.v_ego, sl, radSt)

---------------------------------------------------------------------------
(* Spec: the engagement state machine under all driver inputs *)

\* every button and the brake with a healthy actuator; the override flag and
\* standard cruise; actuator faults and missing actuator messages; the brake
\* and the cancel button under a fault
StatCS ==
    StatCSOf({1}, {0}, {FALSE}, {0}, BOOLEAN, CruiseButtons, {20000}, {FALSE})
    \cup StatCSOf({1}, {0}, BOOLEAN, {0, 2}, {FALSE}, {"IDLE", "MAIN"}, {20000},
                  {FALSE})
    \cup StatCSOf({0}, {0, 1}, {FALSE}, {0}, {FALSE}, {"IDLE", "MAIN"}, {20000},
                  {FALSE})
    \cup StatCSOf({0}, {1}, {FALSE}, {0}, {TRUE}, {"IDLE", "CANCEL"}, {20000},
                  {FALSE})

UpdateStat == UpdateStatOver(StatCS, TimeSteps, MaxFrame)

UpdatePdl ==
    UpdatePdlOver({TRUE}, PdlCSOf({0}, {20000}, {1500}), {300},
                  {NoSpeedLimit}, {None})

Next == UpdateStat \/ UpdatePdl \/ Return

Spec == Init /\ [][Next]_vars

---------------------------------------------------------------------------
(* SpecPdl: the pedal encoder under all of its inputs, with the driver     *)
(* inputs that engage and disengage the controller                         *)

StatCSPdl ==
    StatCSOf({1}, {0}, {FALSE}, {0, 2}, BOOLEAN, {"IDLE", "MAIN"}, {20000}, {FALSE})

UpdateStatPdl == UpdateStatOver(StatCSPdl, {374}, MaxFramePdl)

UpdatePdlPdl ==
    UpdatePdlOver(BOOLEAN, PdlCSOf({0}, {1000, 20000}, {1500}), {-1000, 1000},
                  {NoSpeedLimit}, {None})

NextPdl == UpdateStatPdl \/ UpdatePdlPdl \/ Return

SpecPdl == Init /\ [][NextPdl]_vars

---------------------------------------------------------------------------
(* SpecIdx: enough cycles for the message counter to wrap around *)

StatCSIdx ==
    StatCSOf({1}, {0}, {FALSE}, {0}, {FALSE}, {"IDLE", "MAIN"}, {20000}, {FALSE})

UpdateStatIdx == UpdateStatOver(StatCSIdx, {374}, MaxFrameIdx)

UpdatePdlIdx ==
    UpdatePdlOver(BOOLEAN, PdlCSOf({0}, {20000}, {1500}), {1000},
                  {NoSpeedLimit}, {None})

NextIdx == UpdateStatIdx \/ UpdatePdlIdx \/ Return

SpecIdx == Init /\ [][NextIdx]_vars

---------------------------------------------------------------------------
(* SpecSpeed: the target speed under the stalk, the speed-adjust buttons    *)
(* and the speed-limit arguments of update_pdl                              *)

StatCSSpeed ==
    StatCSOf({1}, {0}, {FALSE}, {0}, BOOLEAN, CruiseButtons,
             {0, 20000, 80000}, BOOLEAN)

UpdateStatSpeed == UpdateStatOver(StatCSSpeed, {374}, MaxFrameSpeed)

UpdatePdlSpeed ==
    UpdatePdlOver({TRUE}, PdlCSOf({0}, {20000}, {1500}), {300},
                  SpeedLimits, {None})

NextSpeed == UpdateStatSpeed \/ UpdatePdlSpeed \/ Return

SpecSpeed == Init /\ [][NextSpeed]_vars

---------------------------------------------------------------------------
(* SpecStalk: stalk pulls and releases over enough cycles for a double     *)
(* pull, a later single pull and the wait that follows it                  *)

StatCSStalk ==
    StatCSOf({1}, {0}, {FALSE}, {0}, {FALSE}, {"IDLE", "MAIN"}, {20000}, {FALSE})

UpdateStatStalk == UpdateStatOver(StatCSStalk, TimeSteps, MaxFrameStalk)

UpdatePdlStalk ==
    UpdatePdlOver({TRUE}, PdlCSOf({0}, {20000}, {1500}), {300},
                  {NoSpeedLimit}, {None})

NextStalk == UpdateStatStalk \/ UpdatePdlStalk \/ Return

SpecStalk == Init /\ [][NextStalk]_vars

---------------------------------------------------------------------------
(* SpecTimeout: actuator messages arriving or not, faults and standard     *)
(* cruise, over more cycles than the freshness timeout                     *)

StatCSTimeout ==
    StatCSOf({0, 1}, {0, 1}, {FALSE}, {0}, {FALSE}, {"IDLE"}, {20000}, {FALSE})
    \cup StatCSOf({1}, {0}, BOOLEAN, {2}, {FALSE}, {"IDLE"}, {20000}, {FALSE})

UpdateStatTimeout == UpdateStatOver(StatCSTimeout, {374}, MaxFrameTimeout)

UpdatePdlTimeout ==
    UpdatePdlOver({TRUE}, PdlCSOf({0}, {20000}, {1500}), {300},
                  {NoSpeedLimit}, {None})

NextTimeout == UpdateStatTimeout \/ UpdatePdlTimeout \/ Return

SpecTimeout == Init /\ [][NextTimeout]_vars

---------------------------------------------------------------------------
(* SpecLead: radar samples, present, absent or missing, reaching update_pdl *)
(* while it runs the encoder and while it is gated                         *)

\* no message; a message with no lead (dRel 0); a message with a lead at 20 m
RadarSamples ==
    { None, Some(Lead(0, 0, 0, 0, 0)), Some(Lead(20000, 0, 0, 15000, 0)) }

StatCSLead ==
    StatCSOf({1}, {0}, {FALSE}, {0}, {FALSE}, {"IDLE", "MAIN"}, {20000}, {FALSE})

UpdateStatLead == UpdateStatOver(StatCSLead, {374}, MaxFrameLead)

UpdatePdlLead ==
    UpdatePdlOver(BOOLEAN, PdlCSOf({0}, {20000}, {1500}), {300},
                  {NoSpeedLimit}, RadarSamples)

NextLead == UpdateStatLead \/ UpdatePdlLead \/ Return

SpecLead == Init /\ [][NextLead]_vars

---------------------------------------------------------------------------
(* SpecTorque: the zero-torque calibration and the hysteresis under motor  *)
(* torques in and out of the calibration window, at speeds under and over  *)
(* 10 mph, with accelerating and braking requests                          *)

StatCSTorque ==
    StatCSOf({1}, {0}, {FALSE}, {0}, {FALSE}, {"IDLE", "MAIN"}, {20000}, {FALSE})

UpdateStatTorque == UpdateStatOver(StatCSTorque, {374}, MaxFrameTorque)

UpdatePdlTorque ==
    UpdatePdlOver(BOOLEAN,
                  PdlCSOf({-40000, -20000, -10000, 0}, {1000, 20000}, {1500}),
                  {-1000, 300, 1000}, {NoSpeedLimit}, {None})

NextTorque == UpdateStatTorque \/ UpdatePdlTorque \/ Return

SpecTorque == Init /\ [][NextTorque]_vars

---------------------------------------------------------------------------
(* SpecLimit: engaging by a double pull at several speeds and in both      *)
(* display units, after speed-limit arguments that are active or not and   *)
(* positive or not                                                         *)

\* no limit; 108 kph supplied but not active; active without a positive
\* limit; an active 108 kph limit; an active 3.6 kph limit with an offset of
\* -2 m/s
SpeedLimitArgs ==
    { NoSpeedLimit, <<FALSE, 30000, 0>>, <<TRUE, 0, 0>>, <<TRUE, 30000, 0>>,
      <<TRUE, 1000, -2000>> }

StatCSLimit ==
    StatCSOf({1}, {0}, {FALSE}, {0}, {FALSE}, {"IDLE", "MAIN"},
             {0, 20000, 80000}, BOOLEAN)

UpdateStatLimit == UpdateStatOver(StatCSLimit, {374}, MaxFrameLimit)

UpdatePdlLimit ==
    UpdatePdlOver({TRUE}, PdlCSOf({0}, {20000}, {1500}), {300},
                  SpeedLimitArgs, {None})

NextLimit == UpdateStatLimit \/ UpdatePdlLimit \/ Return

SpecLimit == Init /\ [][NextLimit]_vars

---------------------------------------------------------------------------
(* SpecFn: the follow-speed planner and the deceleration envelope applied  *)
(* to a controller holding any stored lead, engagement flag and target     *)

FnLeads ==
    { None } \cup
    { Some(Lead(d, v, 0, 15000, a)) :
        d \in {0, 3000, 5000, 6500, 20000, 60000, 121000, 130000},
        v \in {-3000, 0, 278, 1000},
        a \in {-1000, 0} }
    \cup { Some(Lead(d, -3000, ar, 15000, 0)) :
             d \in {5000, 20000}, ar \in {-1000, 1000} }

\* user targets: 0, 100 kph, and the out-of-range 288 kph and -3.6 kph that
\* engaging at 80 m/s and a speed limit below its negative offset produce
FnSpeedsKph == {-3600, 0, 100000, 288000}

FnCS ==
    [ v_ego : {0, 15000, 28500, 30000}, apFollowTimeInS : {1500},
      useTeslaRadar : BOOLEAN, turn_signal_blinking : BOOLEAN,
      angle_steers : {0, 15000} ]

FnAccelMin == {-3000, -1000}

InitFn ==
    /\ self \in { [InitSelf EXCEPT !.pcc_available = TRUE,
                                   !.lead_1 = l,
                                   !.enable_pedal_cruise = e,
                                   !.pedal_speed_kph = p] :
                  l \in FnLeads, e \in BOOLEAN, p \in FnSpeedsKph }
    /\ btn = IF self.enable_pedal_cruise THEN PCC_ENABLED ELSE PCC_STANDBY
    /\ frame = 0
    /\ now = StartMs
    /\ call = [ op |-> "idle" ]
    /\ last_pdl = NoPdlYet
    /\ sent_idx = None
    /\ pc = "planner"

CalcFollowSpeed ==
    \E CS \in FnCS, alca_enabled \in BOOLEAN :
        LET r == calc_follow_speed_ms(self, CS, alca_enabled) IN
        /\ call.op = "idle" /\ pc = "planner"
        /\ self' = r.self
        /\ call' = [ op |-> "calc_follow_speed_ms", CS |-> CS,
                     alca_enabled |-> alca_enabled, pre |-> self, ret |-> r.ret ]
        /\ UNCHANGED <<btn, frame, now, last_pdl, sent_idx, pc>>

DecelLimit ==
    \E CS \in FnCS, accel_min \in FnAccelMin :
        /\ call.op = "idle" /\ pc = "planner"
        /\ call' = [ op |-> "_decel_limit", CS |-> CS, accel_min |-> accel_min,
                     pre |-> self,
                     ret |-> _decel_limit(accel_min, CS.v_ego, self.lead_1, CS,
                                          self.pedal_speed_kph) ]
        /\ UNCHANGED <<self, btn, frame, now, last_pdl, sent_idx, pc>>

SecTilCollision ==
    \E CS \in FnCS :
        /\ call.op = "idle" /\ pc = "planner"
        /\ call' = [ op |-> "_sec_til_collision", CS |-> CS, pre |-> self,
                     ret |-> _sec_til_collision(self.lead_1, CS) ]
        /\ UNCHANGED <<self, btn, frame, now, last_pdl, sent_idx, pc>>

NextFn == CalcFollowSpeed \/ DecelLimit \/ SecTilCollision \/ Return

SpecFn == InitFn /\ [][NextFn]_vars

---------------------------------------------------------------------------
(* Properties of the engagement state machine (Spec)                       *)

\* C1: in a cycle of update_stat with the actuator path available, the brake
\* pressed and the engagement flag true at the start, the flag is false at
\* the end, whatever the button code and the stalk timestamps are.
C1_BrakeDisables ==
    ( /\ call.op = "update_stat"
      /\ self.pcc_available
      /\ call.CS.brake_pressed
      /\ call.pre.enable_pedal_cruise )
    => ~self.enable_pedal_cruise

\* a main-stalk press edge in the update_stat call just made, with the
\* actuator path available
StalkPressEdge ==
    /\ call.op = "update_stat"
    /\ self.pcc_available
    /\ call.CS.cruise_buttons = "MAIN"
    /\ call.pre.prev_cruise_buttons # "MAIN"

\* ms from the press edge recorded before the call to the one of this call
SincePreviousPress == call.t - call.pre.stalk_pull_time_ms

\* "ready" at the start of the call: the button status is above Off with
\* standard cruise off, or the override flag is set
ReadyAtCall ==
    \/ call.pre_btn > 0 /\ call.CS.pcm_acc_status = 0
    \/ call.CS.forcePedalOverCC

\* C2 as stated: while available, a press edge at most 749 ms after the
\* previous one sets the engagement flag, and a press edge 751 ms or more
\* after the previous one never turns the flag from false to true.
C2_DoublePullAsStated ==
    /\ (StalkPressEdge /\ SincePreviousPress <= 749)
       => self.enable_pedal_cruise
    /\ (StalkPressEdge /\ SincePreviousPress >= 751)
       => ~(~call.pre.enable_pedal_cruise /\ self.enable_pedal_cruise)

\* C2 amended: while available AND ready, a press edge at most 749 ms after
\* the recorded previous press sets the engagement flag; when not ready it
\* leaves the flag as the brake rule left it; a press edge 751 ms or more
\* after the recorded previous press never turns the flag from false to true.
C2_DoublePull ==
    /\ (StalkPressEdge /\ SincePreviousPress <= 749 /\ ReadyAtCall)
       => self.enable_pedal_cruise
    /\ (StalkPressEdge /\ SincePreviousPress <= 749 /\ ~ReadyAtCall)
       => ( self.enable_pedal_cruise
            = (call.pre.enable_pedal_cruise /\ ~call.CS.brake_pressed) )
    /\ (StalkPressEdge /\ SincePreviousPress >= 751)
       => ~(~call.pre.enable_pedal_cruise /\ self.enable_pedal_cruise)

\* a second press 748 ms after the first engages a ready, disengaged system
C2_Witness ==
    /\ StalkPressEdge
    /\ SincePreviousPress = 748
    /\ ReadyAtCall
    /\ ~call.pre.enable_pedal_cruise
    /\ self.enable_pedal_cruise

---------------------------------------------------------------------------
(* Properties of the pedal encoder (SpecPdl, SpecIdx, SpecSpeed)           *)

\* the update_pdl call just made was gated: unavailable, or enabled input false
PdlGatedEarly ==
    ~call.pre.pcc_available \/ ~call.enabled

\* C3: every update_pdl call returns a pedal value in [0,100] and an enable
\* bit in {0,1}; both are 0 when the actuator path is unavailable or the
\* enabled input is false, and both are 0 when the engagement flag is false.
C3_SafeOutput ==
    call.op = "update_pdl" =>
        /\ call.ret[1] >= 0 /\ call.ret[1] <= 100000
        /\ call.ret[2] \in {0, 1}
        /\ PdlGatedEarly => (call.ret[1] = 0 /\ call.ret[2] = 0)
        /\ ~call.pre.enable_pedal_cruise => (call.ret[1] = 0 /\ call.ret[2] = 0)

\* the encoder ran with the flag false and a non-zero steady value, and the
\* call still returned 0 with enable bit 0
C3_Witness ==
    /\ call.op = "update_pdl"
    /\ call.encoded
    /\ ~call.pre.enable_pedal_cruise
    /\ self.pedal_steady > 0
    /\ call.ret[1] = 0 /\ call.ret[2] = 0

PdlUngated ==
    call.encoded /\ call.pre.enable_pedal_cruise

C5_TargetInRange ==
    self.pedal_speed_kph >= 0 /\ self.pedal_speed_kph <= 270000

C7_SteadyReset ==
    ( /\ call.op = "update_pdl"
      /\ ~IsNone(call.prev.ret)
      /\ The(call.prev.ret)[2] = 1
      /\ (PdlGatedEarly \/ ~call.pre.enable_pedal_cruise) )
    => self.pedal_steady = 0

---------------------------------------------------------------------------
(* Properties of the planner and the envelope (SpecFn)                     *)

\* the lead stored when the call was made
StoredLead == The(call.pre.lead_1)

\* C8: for a stored lead whose reported distance is strictly between 0 and
\* 6 m and whose relative speed is below 3 kph, calc_follow_speed_ms returns
\* 0, for either radar source, whatever the user maximum, the previous target
\* and the turn-suppression flags are.
C8_MinDistanceStop ==
    ( /\ call.op = "calc_follow_speed_ms"
      /\ ~IsNone(call.pre.lead_1)
      /\ StoredLead.dRel > 0 /\ StoredLead.dRel < 6000
      /\ StoredLead.vRel * 36 < 30000 )
    => call.ret = Some(0)

\* C9 as stated: with a lead at distance 0 m, _decel_limit returns -100.
C9_ZeroDistanceAsStated ==
    ( /\ call.op = "_decel_limit"
      /\ ~IsNone(call.pre.lead_1)
      /\ StoredLead.dRel = 0 )
    => call.ret = -100000

\* by how much the ego speed is over the user target, in milli-kph
OverTarget == (call.CS.v_ego * 36) \div 10 - call.pre.pedal_speed_kph

\* C9 amended: a lead at distance 0 m counts as no lead, and _decel_limit
\* returns half the incoming accel_min, times 1.5 when the ego speed is 2 kph
\* or more over the user target and times 2 when it is 5 kph or more over;
\* it returns -100 for a lead strictly between 0 and 6 m.
C9_ZeroDistance ==
    /\ ( /\ call.op = "_decel_limit"
         /\ ~IsNone(call.pre.lead_1)
         /\ StoredLead.dRel = 0 )
       => call.ret = ( (call.accel_min \div 2)
                       * (IF OverTarget >= 5000 THEN 2000
                          ELSE IF OverTarget >= 2000 THEN 1500 ELSE 1000) )
                     \div 1000
    /\ ( /\ call.op = "_decel_limit"
         /\ ~IsNone(call.pre.lead_1)
         /\ StoredLead.dRel > 0 /\ StoredLead.dRel < 6000 )
       => call.ret = -100000

\* a lead at 0 m with the ego speed 54 kph over a target of 0: the result is
\* the incoming accel_min (half of it, doubled), not -100
C9_Witness ==
    /\ call.op = "_decel_limit"
    /\ ~IsNone(call.pre.lead_1)
    /\ StoredLead.dRel = 0
    /\ OverTarget >= 5000
    /\ call.ret = call.accel_min

\* C10 as stated: when no lead is stored, or the stored lead is at distance 0
\* or farther than 120 m, calc_follow_speed_ms called while engaged returns
\* pedal_speed_kph converted to m/s.
C10_NoLeadAsStated ==
    ( /\ call.op = "calc_follow_speed_ms"
      /\ call.pre.enable_pedal_cruise
      /\ \/ IsNone(call.pre.lead_1)
         \/ StoredLead.dRel = 0
         \/ StoredLead.dRel > 120000 )
    => call.ret = Some((call.pre.pedal_speed_kph * 10) \div 36)

\* the planner sees no lead: with the dedicated radar a reported distance of
\* 0 or above 120 m, with the visual radar one of at most 7 m or above
\* 126.16 m (which the short-range adjustment maps to 0 and to above 120 m)
PlannerSeesNoLead ==
    IF call.CS.useTeslaRadar
    THEN StoredLead.dRel = 0 \/ StoredLead.dRel > 120000
    ELSE StoredLead.dRel <= 7000 \/ StoredLead.dRel > 126160

\* the turn signal, a steering angle above 10 degrees, or a lane change
TurnSuppression ==
    \/ call.CS.turn_signal_blinking
    \/ call.CS.angle_steers > 10000 \/ call.CS.angle_steers < -10000
    \/ call.alca_enabled

\* the user maximum limited to [0, 270] kph
UserMaxKph == Max(0, Min(call.pre.pedal_speed_kph, 270000))

\* the previous target: the ego speed on the first call
PreviousTargetKph ==
    IF IsNone(call.pre.last_speed_kph) THEN (call.CS.v_ego * 36) \div 10
    ELSE The(call.pre.last_speed_kph)

\* C10 amended: with no lead stored the call returns None; with a stored lead
\* that the planner sees as absent or farther than 120 m, a call made while
\* engaged returns the user maximum limited to [0, 270] kph, converted to
\* m/s, and under turn suppression the smaller of that and the previous target.
C10_NoLead ==
    /\ ( call.op = "calc_follow_speed_ms" /\ IsNone(call.pre.lead_1) )
       => call.ret = None
    /\ ( /\ call.op = "calc_follow_speed_ms"
         /\ ~IsNone(call.pre.lead_1)
         /\ call.pre.enable_pedal_cruise
         /\ PlannerSeesNoLead )
       => call.ret = Some(( (IF TurnSuppression
                             THEN Min(UserMaxKph, PreviousTargetKph)
                             ELSE UserMaxKph) * 10 ) \div 36)

\* engaged, a lead beyond the adjusted range, no turn suppression: the call
\* returns the user maximum of 100 kph
C10_Witness ==
    /\ call.op = "calc_follow_speed_ms"
    /\ ~IsNone(call.pre.lead_1)
    /\ call.pre.enable_pedal_cruise
    /\ StoredLead.dRel > 126160
    /\ ~TurnSuppression
    /\ call.pre.pedal_speed_kph = 100000
    /\ call.ret = Some(27777)

---------------------------------------------------------------------------
(* Properties of the rule chain of update_stat (Spec, SpecStalk,           *)
(* SpecTimeout, SpecSpeed)                                                 *)

\* the update_stat call just made found the actuator path available
AvailableCycle == call.op = "update_stat" /\ self.pcc_available

\* rule 2, brake disable, matched in the call just made
BrakeRuleMatched ==
    AvailableCycle /\ call.CS.brake_pressed /\ call.pre.enable_pedal_cruise

\* the target speed and both stalk timestamps are as before the call
TargetAndPullsKept ==
    /\ self.pedal_speed_kph = call.pre.pedal_speed_kph
    /\ self.stalk_pull_time_ms = call.pre.stalk_pull_time_ms
    /\ self.prev_stalk_pull_time_ms = call.pre.prev_stalk_pull_time_ms

\* C11: in an available cycle at most one of the rules 2-7 takes effect.
\* When the brake rule matches, the cycle ends with the flag false and no
\* lower-priority rule has changed the flag, the target speed or the stalk
\* timestamps; when the brake rule does not match and a main-stalk press edge
\* does, the press is recorded and the target speed changes only if the press
\* engages.
C11_OneRulePerCycle ==
    /\ BrakeRuleMatched
       => (~self.enable_pedal_cruise /\ TargetAndPullsKept)
    /\ (StalkPressEdge /\ ~BrakeRuleMatched)
       => /\ self.stalk_pull_time_ms = call.t
          /\ self.prev_stalk_pull_time_ms = call.pre.stalk_pull_time_ms
          /\ \/ self.pedal_speed_kph = call.pre.pedal_speed_kph
             \/ self.enable_pedal_cruise

\* the actuator inputs of the update_stat call just made
FreshAtCall == call.frame < self.pedal_timeout_frame
FaultAtCall == call.CS.pedal_interceptor_state # 0
CruiseOffOrOverride ==
    call.CS.forcePedalOverCC \/ call.CS.pcm_acc_status = 0

\* C12: after every _update_pedal_state call, pcc_available is true exactly
\* when the frame is below the freshness deadline, the fault code is 0 and
\* (the override flag is set or standard cruise is off), and
\* prev_pcc_available holds the pcc_available of before the call.
C12_Availability ==
    call.op = "update_stat"
    => /\ self.pcc_available
          = (FreshAtCall /\ ~FaultAtCall /\ CruiseOffOrOverride)
       /\ self.prev_pcc_available = call.pre.pcc_available

\* the path was available and the call finds its messages timed out, with no
\* fault and standard cruise off
C12_Witness ==
    /\ call.op = "update_stat"
    /\ call.pre.pcc_available
    /\ ~FreshAtCall /\ ~FaultAtCall /\ CruiseOffOrOverride
    /\ ~self.pcc_available
    /\ self.prev_pcc_available

\* the update_stat call just made was given an unavailable actuator path:
\* its messages timed out, a fault code, or standard cruise on with no override
UnavailableCycle ==
    /\ call.op = "update_stat"
    /\ ~(FreshAtCall /\ ~FaultAtCall /\ CruiseOffOrOverride)

\* C13: in a cycle of update_stat with the actuator path unavailable, the
\* engagement flag, the target speed, both stalk timestamps and the previous
\* button code are as before the call, whatever the brake and the buttons are.
C13_UnavailableFreezes ==
    UnavailableCycle
    => /\ self.enable_pedal_cruise = call.pre.enable_pedal_cruise
       /\ TargetAndPullsKept
       /\ self.prev_cruise_buttons = call.pre.prev_cruise_buttons

\* an engaged controller stays engaged, with its target speed, through an
\* unavailable cycle in which the brake and the cancel button are pressed
C13_Witness ==
    /\ UnavailableCycle
    /\ call.pre.enable_pedal_cruise
    /\ call.CS.brake_pressed
    /\ call.CS.cruise_buttons = "CANCEL"
    /\ self.enable_pedal_cruise
    /\ self.pedal_speed_kph > 0

\* the one reset command: pedal 0, enable 0
IsResetCommand(m) == m.pedal = 0 /\ m.enable = 0

\* C14: update_stat emits one reset command (pedal 0, enable 0) exactly when
\* the path is unavailable, the cause is a timeout or a non-zero fault code,
\* and the frame is a multiple of 50; otherwise it emits no message.
C14_ResetCommand ==
    call.op = "update_stat"
    => IF UnavailableCycle /\ (~FreshAtCall \/ FaultAtCall)
          /\ call.frame % 50 = 0
       THEN Len(call.can_sends) = 1 /\ IsResetCommand(call.can_sends[1])
       ELSE call.can_sends = << >>

\* the reset command of frame 50, sent for a timeout with no fault
C14_Witness ==
    /\ UnavailableCycle
    /\ call.frame = 50
    /\ ~FreshAtCall /\ ~FaultAtCall
    /\ Len(call.can_sends) = 1
    /\ IsResetCommand(call.can_sends[1])

\* the update_stat call just made saw the actuator's message index change
IndexChanged ==
    call.op = "update_stat" /\ call.CS.pedal_idx # call.CS.prev_pedal_idx

\* C15: a cycle in which the index changes at frame f sets the freshness
\* deadline to f + 50 and a cycle in which it does not leaves the deadline
\* alone, so the deadline is 0 until the first change and then 50 past the
\* most recent change; the path is unavailable before the first change and in
\* every cycle 50 or more frames after the most recent change; and in the
\* cycle where the index changes again the path is available unless a fault
\* or standard cruise keeps it unavailable.
C15_FreshnessTimeout ==
    call.op = "update_stat"
    => /\ IndexChanged
          => self.pedal_timeout_frame = call.frame + 50
       /\ ~IndexChanged
          => self.pedal_timeout_frame = call.pre.pedal_timeout_frame
       /\ self.pedal_timeout_frame = 0 => ~self.pcc_available
       /\ call.frame >= self.pedal_timeout_frame => ~self.pcc_available
       /\ (IndexChanged /\ ~FaultAtCall /\ CruiseOffOrOverride)
          => self.pcc_available

\* the path had timed out, 50 frames after a change, and the index changes
\* again: the path is available in that cycle
C15_Witness ==
    /\ IndexChanged
    /\ call.pre.pedal_timeout_frame > 0
    /\ call.frame > call.pre.pedal_timeout_frame
    /\ ~call.pre.pcc_available
    /\ self.pcc_available

\* the cancel button is pressed in an available cycle
CancelPressed == AvailableCycle /\ call.CS.cruise_buttons = "CANCEL"

\* C16: an available cycle with the cancel button pressed ends with the flag
\* false, the target speed 0 and the stalk timestamps reset to 0 and -1000;
\* and a main-stalk press edge that finds the timestamps so reset never turns
\* the flag from false to true, i.e. is not taken for a double pull.
C16_Cancel ==
    /\ CancelPressed
       => /\ ~self.enable_pedal_cruise
          /\ self.pedal_speed_kph = 0
          /\ self.stalk_pull_time_ms = 0
          /\ self.prev_stalk_pull_time_ms = -1000
    /\ (StalkPressEdge /\ call.pre.stalk_pull_time_ms = 0)
       => ~(~call.pre.enable_pedal_cruise /\ self.enable_pedal_cruise)

\* cancel pressed while engaged with a target speed and recorded pulls
C16_Witness ==
    /\ CancelPressed
    /\ call.pre.enable_pedal_cruise
    /\ call.pre.pedal_speed_kph > 0
    /\ call.pre.stalk_pull_time_ms > 0
    /\ ~self.enable_pedal_cruise
    /\ self.stalk_pull_time_ms = 0

\* a button edge handled by the speed-adjust rule in the call just made: the
\* path available, the flag true at the start and not cleared by the brake
\* rule, and the button code different from the previous one and neither the
\* main stalk nor cancel
AdjustEdge ==
    /\ AvailableCycle
    /\ call.pre.enable_pedal_cruise
    /\ ~call.CS.brake_pressed
    /\ call.CS.cruise_buttons # call.pre.prev_cruise_buttons
    /\ call.CS.cruise_buttons \notin {"MAIN", "CANCEL"}

\* one display unit in kph, and the vehicle speed rounded to display units
DisplayUnit == IF call.CS.imperial_speed_units THEN 1609 ELSE 1000
RoundedSpeedKph == speed_kph_uom_rounded(call.CS)

\* the step of a button code, in display units
StepOf(b) ==
    CASE b = "RES_ACCEL" -> 1
      [] b = "RES_ACCEL_2ND" -> 5
      [] b = "DECEL_SET" -> -1
      [] b = "DECEL_2ND" -> -5
      [] OTHER -> 0

Clamp270(x) == Max(0, Min(270000, x))

NoRuleBeforeCruise ==
    /\ call.op = "update_stat"
    /\ ~call.CS.brake_pressed
    /\ call.CS.cruise_buttons # "CANCEL"
    /\ call.CS.cruise_buttons = call.pre.prev_cruise_buttons

\* standard cruise reports active with no override in the call just made
CruiseActiveNoOverride ==
    call.CS.pcm_acc_status # 0 /\ ~call.CS.forcePedalOverCC

\* C18: a cycle of update_stat that starts enabled, with standard cruise
\* reporting active and no override, and in which none of brake, main-stalk
\* press edge, cancel and button edge matches, ends with the flag false.
C18_CruiseDisables ==
    ( /\ NoRuleBeforeCruise
      /\ call.pre.enable_pedal_cruise
      /\ CruiseActiveNoOverride )
    => ~self.enable_pedal_cruise

\* ms between the last two recorded main-stalk presses, and from the last
\* recorded press to the call just made
LastTwoPressesGap ==
    call.pre.stalk_pull_time_ms - call.pre.prev_stalk_pull_time_ms
SinceLastPress == call.t - call.pre.stalk_pull_time_ms

\* an available cycle that starts enabled and in which no rule above the
\* single-pull rule matches
SinglePullRuleReached ==
    /\ AvailableCycle
    /\ NoRuleBeforeCruise
    /\ call.pre.enable_pedal_cruise
    /\ ~CruiseActiveNoOverride

\* C19: while enabled, an available cycle in which no higher-priority rule
\* matches, with the last two presses more than 750 ms apart and more than
\* 750 ms elapsed since the last press, sets the flag false; and while the
\* last two presses are less than 750 ms apart (a double-pull enable with no
\* further press) an available cycle without brake and cancel leaves the
\* flag true.
C19_SinglePull ==
    /\ (SinglePullRuleReached /\ LastTwoPressesGap > 750 /\ SinceLastPress > 750)
       => ~self.enable_pedal_cruise
    /\ ( /\ AvailableCycle
         /\ call.pre.enable_pedal_cruise
         /\ LastTwoPressesGap < 750
         /\ ~call.CS.brake_pressed
         /\ call.CS.cruise_buttons # "CANCEL" )
       => self.enable_pedal_cruise

\* engaged by a double pull, then a single pull 752 ms after it, then more
\* than 750 ms with the stalk released: this cycle disengages
C19_Witness ==
    /\ SinglePullRuleReached
    /\ call.CS.cruise_buttons = "IDLE"
    /\ LastTwoPressesGap = 752
    /\ SinceLastPress > 750
    /\ ~self.enable_pedal_cruise

\* C20: in every cycle in which the displayed button status is Standby or
\* NotReady, the status after update_stat is Standby if standard cruise is
\* off or the override flag is set, and NotReady otherwise; and a displayed
\* status of Off or Enabled is not changed by the mirroring step, i.e. it
\* changes only when the engagement flag toggles.  Stated for the cycles that
\* make no CS.config_ui_buttons call, the one other writer of the display.
C20_StatusMirror ==
    (call.op = "update_stat" /\ IsNone(call.ui_config))
    => /\ btn \in {PCC_STANDBY, PCC_NOT_READY}
          => btn = (IF CruiseOffOrOverride THEN PCC_STANDBY ELSE PCC_NOT_READY)
       /\ ( /\ call.pre_btn \in {PCC_OFF, PCC_ENABLED}
            /\ self.enable_pedal_cruise = call.pre.enable_pedal_cruise )
          => btn = call.pre_btn

---------------------------------------------------------------------------
(* Properties of the side effects, the lead tracking and the planner       *)

\* the update_stat call just made raised the alert msg
Alerted(msg) == \E i \in DOMAIN call.alerts : call.alerts[i] = msg

\* the engagement flag was true before the update_stat call just made and is
\* false after it; and the reverse
DisableEdge ==
    call.op = "update_stat"
    /\ call.pre.enable_pedal_cruise /\ ~self.enable_pedal_cruise
EnableEdge ==
    call.op = "update_stat"
    /\ ~call.pre.enable_pedal_cruise /\ self.enable_pedal_cruise

\* C21: an update_stat cycle saves the gains and raises "PCC Disabled" exactly
\* when the engagement flag is true at its start and false at its end, and
\* raises "PCC Enabled" exactly when the flag is false at its start and true
\* at its end.
C21_ToggleSideEffects ==
    call.op = "update_stat"
    => /\ call.save_pid = DisableEdge
       /\ Alerted("PCC Disabled") = DisableEdge
       /\ Alerted("PCC Enabled") = EnableEdge

\* the brake disengages: the gains are saved and "PCC Disabled" is raised
C21_Witness ==
    /\ DisableEdge
    /\ call.CS.brake_pressed
    /\ call.save_pid
    /\ Alerted("PCC Disabled")

\* the update_pdl call just made read a radar message (it was not gated and
\* a message was waiting), and the lead of that message
SampleIngested ==
    call.op = "update_pdl" /\ call.encoded /\ ~IsNone(call.radSt)
SampleLead == The(call.radSt)

\* the stored lead, the sightings counter and the last-seen time are as
\* before the call
LeadTrackingKept ==
    /\ self.lead_1 = call.pre.lead_1
    /\ self.continuous_lead_sightings = call.pre.continuous_lead_sightings
    /\ self.lead_last_seen_time_ms = call.pre.lead_last_seen_time_ms

\* C22: the sightings counter is above 0 only if the stored lead is present
\* (exists with distance > 0); an update_pdl call that ingests a present
\* sample adds 1 to the counter and sets the last-seen time to now; one that
\* ingests an absent sample sets the counter to 0 and leaves the last-seen
\* time alone; one that ingests no sample leaves the stored lead, the counter
\* and the last-seen time alone.
C22_LeadTracking ==
    /\ self.continuous_lead_sightings > 0
       => (~IsNone(self.lead_1) /\ The(self.lead_1).dRel > 0)
    /\ (SampleIngested /\ SampleLead.dRel > 0)
       => /\ self.lead_1 = call.radSt
          /\ self.continuous_lead_sightings
             = call.pre.continuous_lead_sightings + 1
          /\ self.lead_last_seen_time_ms = now
    /\ (SampleIngested /\ SampleLead.dRel <= 0)
       => /\ self.lead_1 = call.radSt
          /\ self.continuous_lead_sightings = 0
          /\ self.lead_last_seen_time_ms = call.pre.lead_last_seen_time_ms
    /\ (call.op = "update_pdl" /\ ~SampleIngested) => LeadTrackingKept

\* an absent sample ends a streak of two sightings; the last-seen time stays
C22_Witness ==
    /\ SampleIngested
    /\ SampleLead.dRel = 0
    /\ call.pre.continuous_lead_sightings = 2
    /\ self.continuous_lead_sightings = 0
    /\ self.lead_last_seen_time_ms = call.pre.lead_last_seen_time_ms
    /\ self.lead_last_seen_time_ms < now

\* the target that the calc_follow_speed_ms call just made stored, in kph
StoredTargetKph == The(self.last_speed_kph)

\* the returned value lies in [0, min(270, user-set maximum)] kph
ReturnedInRange ==
    /\ 0 <= StoredTargetKph
    /\ StoredTargetKph <= Min(270000, call.pre.pedal_speed_kph)

\* under turn suppression the returned value is not above the target stored
\* by the previous call
NotAbovePrevious ==
    (TurnSuppression /\ ~IsNone(call.pre.last_speed_kph))
    => StoredTargetKph <= The(call.pre.last_speed_kph)

\* C23: whenever calc_follow_speed_ms returns a value, the value in kph lies
\* in [0, min(270, user-set maximum)]; with the turn signal blinking, the
\* steering angle above 10 degrees or a lane change in progress it is not
\* above the target stored by the previous call; and it is the value stored
\* as the previous target for the next call.
C23_PlannerRange ==
    (call.op = "calc_follow_speed_ms" /\ ~IsNone(call.ret))
    => /\ ReturnedInRange
       /\ NotAbovePrevious
       /\ call.ret = Some(KPH_TO_MS(StoredTargetKph))

\* the same for the calls that find a user-set maximum of 0 or more
PlannerRangeForValidMaximum ==
    (call.op = "calc_follow_speed_ms" /\ ~IsNone(call.ret)
     /\ call.pre.pedal_speed_kph >= 0)
    => /\ ReturnedInRange
       /\ NotAbovePrevious
       /\ call.ret = Some(KPH_TO_MS(StoredTargetKph))

\* the lead that the _decel_limit call just made was given is present
DecelLeadPresent ==
    ~IsNone(call.pre.lead_1) /\ StoredLead.dRel > 0

\* the over-target multiplier, in thousandths: 1, 1.5 from 2 kph over the
\* user target, 2 from 5 kph over
OverTargetMult ==
    IF OverTarget >= 5000 THEN 2000
    ELSE IF OverTarget >= 2000 THEN 1500
    ELSE 1000

\* C24: for every present lead with distance strictly between 0 and 6 m,
\* _decel_limit returns exactly -100 whatever the ego speed, the relative
\* speed and acceleration, the user target and the incoming accel_min are;
\* with no present lead it returns accel_min times 0.5 times the over-target
\* multiplier.
C24_DecelEnvelopeEnds ==
    call.op = "_decel_limit"
    => /\ (DecelLeadPresent /\ StoredLead.dRel < 6000)
          => call.ret = -100000
       /\ ~DecelLeadPresent
          => call.ret = (call.accel_min * OverTargetMult) \div 2000

\* no lead stored and the ego speed 2.6 kph over a user target of 100 kph:
\* the result is three quarters of the incoming accel_min
C24_Witness ==
    /\ call.op = "_decel_limit"
    /\ IsNone(call.pre.lead_1)
    /\ call.pre.pedal_speed_kph = 100000
    /\ OverTarget = 2600
    /\ call.ret = (call.accel_min * 3) \div 4

\* the lead given to the _sec_til_collision call just made is present and
\* closing
PresentAndClosing ==
    ~IsNone(call.pre.lead_1) /\ StoredLead.dRel > 0 /\ StoredLead.vRel < 0

\* the divisor of the call: the closing speed with the lead's deceleration
\* over the follow time
CollisionDivisor ==
    StoredLead.vRel + Mul(Min(0, StoredLead.aRel), call.CS.apFollowTimeInS)

\* C25: _sec_til_collision returns the sentinel 60 s whenever the lead is not
\* present or not closing; for every present, closing lead it returns at
\* least 0.1 s, with the dedicated radar and with the visual radar, and its
\* divisor is not zero.
C25_SecTilCollision ==
    call.op = "_sec_til_collision"
    => /\ ~PresentAndClosing => call.ret = 60000
       /\ PresentAndClosing => (call.ret >= 100 /\ CollisionDivisor # 0)

\* what does hold of _sec_til_collision: the sentinel, a divisor below zero,
\* and a result the dedicated radar caps at 0.1 s
SecTilCollisionCapped ==
    call.op = "_sec_til_collision"
    => /\ ~PresentAndClosing => call.ret = 60000
       /\ PresentAndClosing
          => /\ CollisionDivisor < 0
             /\ call.CS.useTeslaRadar => call.ret <= 100
             /\ ~call.CS.useTeslaRadar => call.ret >= 0

---------------------------------------------------------------------------
(* Properties of the pedal encoder's calibration and hysteresis *)

\* the calibration window is met by the inputs of the update_pdl call just
\* made: torque between -30 and 0, at least 10 mph, a positive previous accel
\* command, a torque magnitude below the recorded one
CalibrationWindow ==
    /\ call.CS.torqueLevel > -30000 /\ call.CS.torqueLevel < 0
    /\ call.CS.v_ego >= 10 * MPH_TO_MS
    /\ call.pre.prev_tesla_accel > 0
    /\ Abs(call.CS.torqueLevel) < Abs(call.pre.lastTorqueForPedalForZeroTorque)

ZeroTorqueChanged ==
    self.PedalForZeroTorque # call.pre.PedalForZeroTorque

\* C26: PedalForZeroTorque never increases: update_stat leaves it alone, an
\* update_pdl call changes it only inside the calibration window, and each
\* change leaves new value <= old value with a strictly smaller recorded
\* torque magnitude.
C26_ZeroTorqueTightens ==
    /\ call.op = "update_stat" => ~ZeroTorqueChanged
    /\ call.op = "update_pdl"
       => /\ self.PedalForZeroTorque <= call.pre.PedalForZeroTorque
          /\ ZeroTorqueChanged
             => /\ CalibrationWindow
                /\ Abs(self.lastTorqueForPedalForZeroTorque)
                   < Abs(call.pre.lastTorqueForPedalForZeroTorque)

\* what does hold: changes happen only inside the window, take the previous
\* accel command and come with a strictly smaller recorded torque magnitude
ZeroTorqueFollowsAccel ==
    /\ call.op = "update_stat" => ~ZeroTorqueChanged
    /\ call.op = "update_pdl"
       => /\ ZeroTorqueChanged
             => /\ CalibrationWindow
                /\ self.PedalForZeroTorque = call.pre.prev_tesla_accel
                /\ Abs(self.lastTorqueForPedalForZeroTorque)
                   < Abs(call.pre.lastTorqueForPedalForZeroTorque)
          /\ ~CalibrationWindow
             => self.lastTorqueForPedalForZeroTorque
                = call.pre.lastTorqueForPedalForZeroTorque

\* the update_pdl call just made reached pedal_hysteresis, which update_pdl
\* calls with enabled true only
HysteresisCalled == call.op = "update_pdl" /\ call.encoded

\* the raw pedal value that call passed to pedal_hysteresis; the fields it
\* reads are final before the encoder runs
RawPedalAtCall ==
    raw_pedal(self, call.CS, call.actuators.gas - call.actuators.brake,
              call.CS.v_ego)

\* C27: after every pedal_hysteresis call with enabled true the steady value
\* is within 1.0 of the raw value passed in; it is unchanged when the raw
\* value is within 1.0 of it, is raw - 1.0 when the raw value was above the
\* band and raw + 1.0 when it was below, and is never the raw value itself
\* after a move.
C27_HysteresisBand ==
    HysteresisCalled
    => /\ Abs(self.pedal_steady - RawPedalAtCall) <= 1000
       /\ Abs(RawPedalAtCall - call.pre.pedal_steady) <= 1000
          => self.pedal_steady = call.pre.pedal_steady
       /\ RawPedalAtCall > call.pre.pedal_steady + 1000
          => self.pedal_steady = RawPedalAtCall - 1000
       /\ RawPedalAtCall < call.pre.pedal_steady - 1000
          => self.pedal_steady = RawPedalAtCall + 1000
       /\ self.pedal_steady # call.pre.pedal_steady
          => self.pedal_steady # RawPedalAtCall

\* the steady value had gone up and a lower raw value pulls it down to the
\* upper edge of the band
C27_Witness ==
    /\ HysteresisCalled
    /\ call.pre.pedal_steady > 1000
    /\ RawPedalAtCall > 0
    /\ RawPedalAtCall < call.pre.pedal_steady - 1000
    /\ self.pedal_steady = RawPedalAtCall + 1000

\* a raw value inside the band leaves a steady value other than 0 alone
HysteresisHeld ==
    /\ HysteresisCalled
    /\ call.pre.pedal_steady > 0
    /\ RawPedalAtCall # call.pre.pedal_steady
    /\ Abs(RawPedalAtCall - call.pre.pedal_steady) <= 1000
    /\ self.pedal_steady = call.pre.pedal_steady

---------------------------------------------------------------------------
(* Properties of engaging: the target taken and the only way in *)

\* a double pull engages in the update_stat call just made: available, a
\* main-stalk press edge under 750 ms after the previous one, and ready
DoublePullEnables ==
    StalkPressEdge /\ SincePreviousPress < 750 /\ ReadyAtCall

\* the active speed-limit value after the most recent update_pdl call: 0 when
\* its activation flag was off or its limit was not positive (or there was no
\* call yet), else limit plus offset in kph
ActiveSpeedLimitKph ==
    IF ~last_pdl.sl[1] \/ last_pdl.sl[2] <= 0 THEN 0
    ELSE ((last_pdl.sl[2] + last_pdl.sl[3]) * 36) \div 10

\* C28: in the cycle where a double pull enables, the target speed at the end
\* of update_stat is max(current speed rounded to the display unit, active
\* speed-limit value), the latter being 0 whenever the most recent update_pdl
\* call had the activation flag off or a limit that was not positive.
C28_TargetOnEnable ==
    DoublePullEnables
    => /\ self.enable_pedal_cruise
       /\ self.pedal_speed_kph = Max(RoundedSpeedKph, ActiveSpeedLimitKph)

\* engaged at 72 kph under an active 108 kph limit: the target is the limit
C28_Witness ==
    /\ DoublePullEnables
    /\ ~call.pre.enable_pedal_cruise
    /\ RoundedSpeedKph = 72000
    /\ ActiveSpeedLimitKph = 108000
    /\ self.pedal_speed_kph = 108000

\* engaged after a limit that was supplied but not active: the target is the
\* rounded speed
EnabledWithoutActiveLimit ==
    /\ DoublePullEnables
    /\ ~last_pdl.sl[1] /\ last_pdl.sl[2] > 0
    /\ self.pedal_speed_kph = RoundedSpeedKph
    /\ RoundedSpeedKph > 0

\* the engagement flag was false before the call just made and is true now
Engaged ==
    /\ call.op \in {"update_stat", "update_pdl"}
    /\ ~call.pre.enable_pedal_cruise
    /\ self.enable_pedal_cruise

\* C29: the engagement flag goes from false to true only in an available
\* update_stat cycle with a main-stalk press edge under 750 ms after the
\* previous press edge, the button status above Off with standard cruise off
\* or the override flag set; no update_pdl call and no other input of
\* update_stat sets it.
C29_OnlyDoublePullEngages ==
    Engaged
    => /\ call.op = "update_stat"
       /\ self.pcc_available
       /\ call.CS.cruise_buttons = "MAIN"
       /\ call.pre.prev_cruise_buttons # "MAIN"
       /\ call.t - call.pre.stalk_pull_time_ms < 750
       /\ \/ call.pre_btn > 0 /\ call.CS.pcm_acc_status = 0
          \/ call.CS.forcePedalOverCC

\* engaged through the override flag while standard cruise is active
C29_Witness ==
    /\ Engaged
    /\ call.CS.forcePedalOverCC
    /\ call.CS.pcm_acc_status # 0
    /\ call.t - call.pre.stalk_pull_time_ms = 748

---------------------------------------------------------------------------
(* Properties of the rolling index across both entry points *)

\* the rolling indices of the messages the call just made emitted, in order:
\* the reset commands of update_stat, the pedal command of update_pdl
EmittedIndices ==
    IF call.op = "update_stat"
    THEN [ i \in 1..Len(call.can_sends) |-> call.can_sends[i].idx ]
    ELSE IF call.op = "update_pdl" THEN << call.ret[3] >>
    ELSE << >>

FollowsMod16(i, j) == j = (i + 1) % 16

\* C30: over any interleaving of update_stat and update_pdl, the rolling
\* indices of all emitted messages, reset commands and pedal commands alike,
\* are in emission order consecutive modulo 16: the first index a call emits
\* follows the one emitted last before the call, and each further one follows
\* its predecessor.
C30_IndicesConsecutive ==
    /\ \A i \in 1..Len(EmittedIndices) : EmittedIndices[i] \in 0..15
    /\ (Len(EmittedIndices) > 0 /\ ~IsNone(call.sent_before))
       => FollowsMod16(The(call.sent_before), EmittedIndices[1])
    /\ \A i \in 2..Len(EmittedIndices) :
          FollowsMod16(EmittedIndices[i - 1], EmittedIndices[i])

\* the reset command of frame 50 carries index 3, after the reset command of
\* frame 0 and the 50 pedal commands of frames 0..49
C30_Witness ==
    /\ call.op = "update_stat"
    /\ call.frame = 50
    /\ Len(call.can_sends) = 1
    /\ call.sent_before = Some(2)
    /\ EmittedIndices = << 3 >>

\* a pedal command wraps to index 0 after index 15
PedalCommandWraps ==
    /\ call.op = "update_pdl"
    /\ call.sent_before = Some(15)
    /\ EmittedIndices = << 0 >>

---------------------------------------------------------------------------
(* Properties of the stored previous output *)

\* the update_pdl call just made and the update_pdl call before it both ran
\* the encoder with the engagement flag true
TwoUngatedRuns ==
    /\ call.op = "update_pdl"
    /\ call.encoded /\ call.pre.enable_pedal_cruise
    /\ call.prev.encoded /\ The(call.prev.ret)[2] = 1

\* C31: of two consecutive update_pdl calls that both run the encoder with
\* the engagement flag true, the second returns v2 with
\* v1 - 12.5 <= v2 <= v1 + 2.5, v1 being the value the first returned; and
\* prev_tesla_pedal is in every state the value returned by the most recent
\* call that ran the encoder.
C31_ConsecutiveRuns ==
    /\ TwoUngatedRuns
       => /\ The(call.prev.ret)[1] - 12500 <= call.ret[1]
          /\ call.ret[1] <= The(call.prev.ret)[1] + 2500
    /\ ~IsNone(last_pdl.run)
       => self.prev_tesla_pedal = The(last_pdl.run)

\* the rise limit binds: the second of two ungated runs returns exactly 2.5
\* more than the first, and that value is stored
C31_Witness ==
    /\ TwoUngatedRuns
    /\ The(call.prev.ret)[1] > 0
    /\ call.ret[1] = The(call.prev.ret)[1] + 2500
    /\ self.prev_tesla_pedal = call.ret[1]

\* the stored value survives a gated call and a brake press: it is still the
\* positive value of the last encoder run while the last call returned 0
StoredOutputKept ==
    /\ call.op = "update_stat"
    /\ call.CS.brake_pressed /\ call.pre.enable_pedal_cruise
    /\ ~last_pdl.encoded
    /\ ~IsNone(last_pdl.run)
    /\ self.prev_tesla_pedal > 0

=============================================================================
